---------------------------- MODULE Spec2Model ----------------------------
(***************************************************************************)
(* A model of dr_wav.h (rdb/dr_libs): the RIFF/WAVE chunk scanner          *)
(* (drwav_open, drwav__read_fmt), the sample stream (drwav_read_raw,       *)
(* drwav_read, drwav_seek), the float dispatcher (drwav_read_f32) and the  *)
(* two byte sources of the file (memory and stdio callbacks).              *)
(*                                                                         *)
(* Numbers.  uint64_t / size_t values (sizes, positions, byte counts) are  *)
(* 8-byte little-endian tuples <<b0,...,b7>> with arithmetic modulo 2^64,  *)
(* because the values the code handles (chunk sizes up to 0xFFFFFFFF,      *)
(* displacements up to 2^32) exceed what a TLC integer holds.  size_t is   *)
(* taken to be 64 bits wide (LP64).  unsigned short and int values are     *)
(* plain integers.                                                         *)
(*                                                                         *)
(* Bytes.  The payload bytes of the source are not stored: a read is       *)
(* described by the source offset it started at and the number of bytes it *)
(* delivered, which identifies the bytes delivered.                        *)
(*                                                                         *)
(* Build.  assert() is active (NDEBUG not defined); the host is            *)
(* little-endian.                                                          *)
(***************************************************************************)
EXTENDS Integers, Sequences, FiniteSets, TLC

----------------------------------------------------------------------------
(* uint64_t arithmetic                                                     *)

\* the i-th byte (1-based, little-endian) of a non-negative int below 2^31
ByteOf(n, i) ==
    CASE i = 1 -> n % 256
      [] i = 2 -> (n \div 256) % 256
      [] i = 3 -> (n \div 65536) % 256
      [] i = 4 -> (n \div 16777216) % 256
      [] OTHER -> 0

\* a non-negative int below 2^31 as a uint64_t
U64(n) == <<ByteOf(n, 1), ByteOf(n, 2), ByteOf(n, 3), ByteOf(n, 4), 0, 0, 0, 0>>

Zero64 == U64(0)

\* a uint64_t known to be below 2^31 as an int
ToInt(a) == a[1] + a[2] * 256 + a[3] * 65536 + a[4] * 16777216

\* a + b modulo 2^64: byte by byte with carry
Add64(a, b) ==
    LET s1 == a[1] + b[1] + 0
        s2 == a[2] + b[2] + (s1 \div 256)
        s3 == a[3] + b[3] + (s2 \div 256)
        s4 == a[4] + b[4] + (s3 \div 256)
        s5 == a[5] + b[5] + (s4 \div 256)
        s6 == a[6] + b[6] + (s5 \div 256)
        s7 == a[7] + b[7] + (s6 \div 256)
        s8 == a[8] + b[8] + (s7 \div 256)
    IN  <<s1 % 256, s2 % 256, s3 % 256, s4 % 256, s5 % 256, s6 % 256, s7 % 256, s8 % 256>>

\* a - b modulo 2^64: byte by byte with borrow
Sub64(a, b) ==
    LET s1 == a[1] - b[1] - 0
        s2 == a[2] - b[2] - (IF s1 < 0 THEN 1 ELSE 0)
        s3 == a[3] - b[3] - (IF s2 < 0 THEN 1 ELSE 0)
        s4 == a[4] - b[4] - (IF s3 < 0 THEN 1 ELSE 0)
        s5 == a[5] - b[5] - (IF s4 < 0 THEN 1 ELSE 0)
        s6 == a[6] - b[6] - (IF s5 < 0 THEN 1 ELSE 0)
        s7 == a[7] - b[7] - (IF s6 < 0 THEN 1 ELSE 0)
        s8 == a[8] - b[8] - (IF s7 < 0 THEN 1 ELSE 0)
    IN  <<s1 % 256, s2 % 256, s3 % 256, s4 % 256, s5 % 256, s6 % 256, s7 % 256, s8 % 256>>

\* a < b, unsigned: the most significant differing byte decides
Lt64(a, b) ==
    IF a[8] # b[8] THEN a[8] < b[8]
    ELSE IF a[7] # b[7] THEN a[7] < b[7]
    ELSE IF a[6] # b[6] THEN a[6] < b[6]
    ELSE IF a[5] # b[5] THEN a[5] < b[5]
    ELSE IF a[4] # b[4] THEN a[4] < b[4]
    ELSE IF a[3] # b[3] THEN a[3] < b[3]
    ELSE IF a[2] # b[2] THEN a[2] < b[2]
    ELSE a[1] < b[1]

Le64(a, b) == ~Lt64(b, a)

Min64(a, b) == IF Lt64(b, a) THEN b ELSE a

\* a * m modulo 2^64, for an unsigned short m: byte by byte with carry
Mul64(a, m) ==
    LET s1 == a[1] * m + 0
        s2 == a[2] * m + (s1 \div 256)
        s3 == a[3] * m + (s2 \div 256)
        s4 == a[4] * m + (s3 \div 256)
        s5 == a[5] * m + (s4 \div 256)
        s6 == a[6] * m + (s5 \div 256)
        s7 == a[7] * m + (s6 \div 256)
        s8 == a[8] * m + (s7 \div 256)
    IN  <<s1 % 256, s2 % 256, s3 % 256, s4 % 256, s5 % 256, s6 % 256, s7 % 256, s8 % 256>>

\* long division by an unsigned short m > 0, most significant byte first:
\* <<quotient, remainder>>
DivMod64(a, m) ==
    LET c8 == a[8]
        c7 == (c8 % m) * 256 + a[7]
        c6 == (c7 % m) * 256 + a[6]
        c5 == (c6 % m) * 256 + a[5]
        c4 == (c5 % m) * 256 + a[4]
        c3 == (c4 % m) * 256 + a[3]
        c2 == (c3 % m) * 256 + a[2]
        c1 == (c2 % m) * 256 + a[1]
    IN  <<<<c1 \div m, c2 \div m, c3 \div m, c4 \div m,
            c5 \div m, c6 \div m, c7 \div m, c8 \div m>>, c1 % m>>

\* a / m (truncating), for an unsigned short m > 0
Div64(a, m) == DivMod64(a, m)[1]

\* a % m, for an unsigned short m > 0
Mod64(a, m) == DivMod64(a, m)[2]

\* a + k for a signed int k (the conversion of int to uint64_t), modulo 2^64
AddInt64(a, k) == IF k >= 0 THEN Add64(a, U64(k)) ELSE Sub64(a, U64(-k))

----------------------------------------------------------------------------
(* Byte sources.  A source is [kind, len]: "memory" is the drwav_memory     *)
(* adapter over a buffer of len bytes, "stdio" the FILE adapter over a file *)
(* of len bytes.  The position is threaded through a context               *)
(* [pos, calls, log, seekFail, short]: the source position, the number of   *)
(* callback invocations made so far by the running operation, the offsets  *)
(* passed to onSeek so far by it, whether one of those onSeek calls        *)
(* reported failure, and whether an onRead call delivered fewer bytes than *)
(* it was asked for.  A fault plan [at, keep] makes the at-th callback     *)
(* invocation of the operation fail (stdio only: an I/O error); a failing  *)
(* read delivers at most keep bytes.                                       *)

NoFault == [at |-> 0, keep |-> 0]

\* the context an operation starts with, the source being at pos
Ctx(pos) ==
    [pos |-> pos, calls |-> 0, log |-> <<>>, seekFail |-> FALSE, short |-> FALSE]

\* bytes between pos and the end of the source (0 when pos is past the end)
Avail(src, pos) == IF Lt64(pos, src.len) THEN Sub64(src.len, pos) ELSE Zero64

drwav__on_read_memory(src, pos, bytesToRead) ==
    LET bytesRemaining == Sub64(src.len, pos)
        n == IF Lt64(bytesRemaining, bytesToRead) THEN bytesRemaining ELSE bytesToRead
    IN  [got |-> n, pos |-> Add64(pos, n)]

drwav__on_seek_memory(src, pos, offset) ==
    LET off == IF offset > 0
               THEN IF Lt64(src.len, AddInt64(pos, offset))
                    THEN ToInt(Sub64(src.len, pos))
                    ELSE offset
               ELSE IF Lt64(pos, U64(-offset))
                    THEN -ToInt(pos)
                    ELSE offset
    IN  [ok |-> TRUE, pos |-> AddInt64(pos, off)]

\* fread(pBufferOut, 1, bytesToRead, pFile); fault: an I/O error cuts it short
drwav__on_read_stdio(src, pos, bytesToRead, fault, keep) ==
    LET full == Min64(bytesToRead, Avail(src, pos))
        n == IF fault /\ Lt64(U64(keep), full) THEN U64(keep) ELSE full
    IN  [got |-> n, pos |-> Add64(pos, n)]

\* fseek(pFile, offset, SEEK_CUR) == 0: fails on an I/O error and on a
\* resulting position before the start of the file; may pass the end
drwav__on_seek_stdio(src, pos, offset, fault) ==
    IF fault \/ (offset < 0 /\ Lt64(pos, U64(-offset)))
    THEN [ok |-> FALSE, pos |-> pos]
    ELSE [ok |-> TRUE, pos |-> AddInt64(pos, offset)]

\* onRead(pUserData, buf, n) as the next callback invocation of the operation
OnRead(src, ctx, n, plan) ==
    LET c == ctx.calls + 1
        r == IF src.kind = "memory"
             THEN drwav__on_read_memory(src, ctx.pos, n)
             ELSE drwav__on_read_stdio(src, ctx.pos, n, plan.at = c, plan.keep)
    IN  [got |-> r.got, start |-> ctx.pos,
         ctx |-> [ctx EXCEPT !.pos = r.pos, !.calls = c,
                             !.short = ctx.short \/ r.got # n]]

\* onSeek(pUserData, offset) as the next callback invocation of the operation
OnSeek(src, ctx, offset, plan) ==
    LET c == ctx.calls + 1
        r == IF src.kind = "memory"
             THEN drwav__on_seek_memory(src, ctx.pos, offset)
             ELSE drwav__on_seek_stdio(src, ctx.pos, offset, plan.at = c)
    IN  [ok |-> r.ok,
         ctx |-> [pos |-> r.pos, calls |-> c, log |-> Append(ctx.log, offset),
                  seekFail |-> ctx.seekFail \/ ~r.ok, short |-> ctx.short]]

----------------------------------------------------------------------------
(* Containers.  A container is the content of a source, field by field:    *)
(*   riffId, riffSize, waveId                  the 12-byte RIFF header     *)
(*   fmtId, fmtSize, formatTag, channels, sampleRate, avgBytesPerSec,      *)
(*   blockAlign, bitsPerSample                 the 24-byte format block    *)
(*   cbSize, validBits, channelMask, subFormat what follows it (fmtSize    *)
(*                                             18: cbSize; 40: all)        *)
(*   chunks                                    the chunks after it, each   *)
(*                                             [id, size], in file order   *)
(* Multi-byte fields are little-endian byte tuples as they lie in the      *)
(* file.  Four-character ids are strings.                                  *)

drwav__is_little_endian == TRUE

drwav__read_u16(data) ==
    IF drwav__is_little_endian
    THEN data[1] + data[2] * 256
    ELSE data[2] + data[1] * 256

drwav__read_u32(data) ==
    IF drwav__is_little_endian
    THEN <<data[1], data[2], data[3], data[4], 0, 0, 0, 0>>
    ELSE <<data[4], data[3], data[2], data[1], 0, 0, 0, 0>>

DR_WAVE_FORMAT_PCM == 1
DR_WAVE_FORMAT_ADPCM == 2
DR_WAVE_FORMAT_IEEE_FLOAT == 3
DR_WAVE_FORMAT_ALAW == 6
DR_WAVE_FORMAT_MULAW == 7
DR_WAVE_FORMAT_EXTENSIBLE == 65534

(* An operation is modelled by a chain of operators, one per stretch of its *)
(* code between two callback invocations; each takes what the callback     *)
(* answered as its last parameter.                                         *)

\* An indeterminate value: what a byte, an unsigned short or an unsigned
\* int of an uninitialised object holds.  It stands for any value of the
\* type, is no value of the type itself, and is never computed with; a field
\* the code never assigns keeps it.
Indet == -1

\* an indeterminate unsigned int, as it widens to 64 bits
IndetU32 == <<Indet, Indet, Indet, Indet, 0, 0, 0, 0>>

\* translatedFormatTag = drwav__read_u16(fmt.subFormat + 0): of indeterminate
\* bytes, an indeterminate tag
SubFormatTag(subFormat) ==
    IF subFormat[1] = Indet \/ subFormat[2] = Indet THEN Indet
    ELSE drwav__read_u16(subFormat)

\* a drwav_fmt and a drwav holding zeros; NoWav stands for "no object"
NoFmt ==
    [formatTag |-> 0, channels |-> 0, sampleRate |-> Zero64,
     avgBytesPerSec |-> Zero64, blockAlign |-> 0, bitsPerSample |-> 0,
     extendedSize |-> 0, validBitsPerSample |-> 0, channelMask |-> Zero64,
     subFormat |-> [i \in 1..16 |-> 0]]

NoWav ==
    [fmt |-> NoFmt, sampleRate |-> Zero64, channels |-> 0, bitsPerSample |-> 0,
     bytesPerSample |-> 0, translatedFormatTag |-> 0,
     totalSampleCount |-> Zero64, bytesRemaining |-> Zero64]

\* drwav__read_fmt, the assignments from the 24-byte block
FmtBlock(w, fmtOut) ==
    [fmtOut EXCEPT !.formatTag      = drwav__read_u16(w.formatTag),
                   !.channels       = drwav__read_u16(w.channels),
                   !.sampleRate     = drwav__read_u32(w.sampleRate),
                   !.avgBytesPerSec = drwav__read_u32(w.avgBytesPerSec),
                   !.blockAlign     = drwav__read_u16(w.blockAlign),
                   !.bitsPerSample  = drwav__read_u16(w.bitsPerSample)]

\* drwav__read_fmt, chunkSize == 40, after the read of the 22-byte extension
ReadFmtExt(w, ext, r3) ==
    IF r3.got # U64(22) THEN [ok |-> FALSE, ctx |-> r3.ctx, fmt |-> ext]
    ELSE [ok |-> TRUE, ctx |-> r3.ctx,
          fmt |-> [ext EXCEPT !.validBitsPerSample = drwav__read_u16(w.validBits),
                              !.channelMask = drwav__read_u32(w.channelMask),
                              !.subFormat = w.subFormat]]

\* drwav__read_fmt, chunkSize == 40, after the read of the 2-byte cbSize
ReadFmtCbSize(w, src, plan, base, r2) ==
    IF r2.got # U64(2) THEN [ok |-> FALSE, ctx |-> r2.ctx, fmt |-> base]
    ELSE IF drwav__read_u16(w.cbSize) # 22
    THEN [ok |-> FALSE, ctx |-> r2.ctx,
          fmt |-> [base EXCEPT !.extendedSize = drwav__read_u16(w.cbSize)]]
    ELSE ReadFmtExt(w, [base EXCEPT !.extendedSize = drwav__read_u16(w.cbSize)],
                    OnRead(src, r2.ctx, U64(22), plan))

\* drwav__read_fmt, chunkSize == 18: return onSeek(pUserData, 2)
ReadFmtSeek(base, s) == [ok |-> s.ok, ctx |-> s.ctx, fmt |-> base]

\* drwav__read_fmt after the read of the 24-byte block
ReadFmtBlock(w, src, plan, fmtOut, chunkSize, r1) ==
    IF r1.got # U64(24) THEN [ok |-> FALSE, ctx |-> r1.ctx, fmt |-> fmtOut]
    ELSE IF w.fmtId # "fmt " THEN [ok |-> FALSE, ctx |-> r1.ctx, fmt |-> fmtOut]
    ELSE IF Lt64(chunkSize, U64(16)) THEN [ok |-> FALSE, ctx |-> r1.ctx, fmt |-> fmtOut]
    ELSE IF chunkSize # U64(16) /\ chunkSize # U64(18) /\ chunkSize # U64(40)
    THEN [ok |-> FALSE, ctx |-> r1.ctx, fmt |-> fmtOut]
    ELSE IF Lt64(U64(16), chunkSize)
    THEN IF chunkSize = U64(18)
         THEN ReadFmtSeek(FmtBlock(w, fmtOut), OnSeek(src, r1.ctx, 2, plan))
         ELSE ReadFmtCbSize(w, src, plan, FmtBlock(w, fmtOut),
                            OnRead(src, r1.ctx, U64(2), plan))
    ELSE [ok |-> TRUE, ctx |-> r1.ctx,
          fmt |-> [FmtBlock(w, fmtOut) EXCEPT !.extendedSize = 0,
                                              !.validBitsPerSample = 0,
                                              !.channelMask = Zero64,
                                              !.subFormat = [i \in 1..16 |-> 0]]]

\* what drwav__read_fmt answers: [ok, ctx, fmt].  fmtOut is the caller's
\* drwav_fmt as it is on entry; the fields the function does not write keep
\* their entry values.
drwav__read_fmt(w, src, ctx0, plan, fmtOut) ==
    ReadFmtBlock(w, src, plan, fmtOut, drwav__read_u32(w.fmtSize),
                 OnRead(src, ctx0, U64(24), plan))

INT_MAX == 2147483647

\* SkipChunk with a single seek of at most 0x7FFFFFFF bytes instead of the loop
SkipChunkOnce(src, ctx, bytesRemainingToSeek, plan) ==
    IF ~Lt64(Zero64, bytesRemainingToSeek) THEN [ok |-> TRUE, ctx |-> ctx]
    ELSE IF Lt64(U64(2147483647), bytesRemainingToSeek)
    THEN [ok |-> OnSeek(src, ctx, 2147483647, plan).ok,
          ctx |-> OnSeek(src, ctx, 2147483647, plan).ctx]
    ELSE [ok |-> OnSeek(src, ctx, ToInt(bytesRemainingToSeek), plan).ok,
          ctx |-> OnSeek(src, ctx, ToInt(bytesRemainingToSeek), plan).ctx]

\* the seek loop of drwav_open over one skipped chunk: [ok, ctx]
RECURSIVE SkipChunk(_, _, _, _)
RECURSIVE SkipNext(_, _, _, _)
SkipChunk(src, ctx, bytesRemainingToSeek, plan) ==
    IF ~Lt64(Zero64, bytesRemainingToSeek) THEN [ok |-> TRUE, ctx |-> ctx]
    ELSE IF Lt64(U64(2147483647), bytesRemainingToSeek)
    THEN SkipNext(src, Sub64(bytesRemainingToSeek, U64(2147483647)), plan,
                  OnSeek(src, ctx, 2147483647, plan))
    ELSE SkipNext(src, Zero64, plan,
                  OnSeek(src, ctx, ToInt(bytesRemainingToSeek), plan))

\* the loop after one onSeek call
SkipNext(src, bytesRemainingToSeek, plan, s) ==
    IF ~s.ok THEN [ok |-> FALSE, ctx |-> s.ctx]
    ELSE SkipChunk(src, s.ctx, bytesRemainingToSeek, plan)

\* PaddedSize without the pad byte of an odd-sized chunk
PaddedSizeNoPad(dataSize) == dataSize

\* the size a skipped chunk is seeked past: its size plus the pad byte
PaddedSize(dataSize) ==
    IF Mod64(dataSize, 2) # 0 THEN Add64(dataSize, U64(1)) ELSE dataSize

\* the for (;;) loop of drwav_open, at the header of the i-th chunk after the
\* format chunk: [ok, ctx, dataSize].  The source holds no bytes past its
\* last chunk, so a header read that delivers 8 bytes delivers w.chunks[i].
RECURSIVE ScanChunks(_, _, _, _, _)
RECURSIVE ScanHeader(_, _, _, _, _)
RECURSIVE ScanSkipped(_, _, _, _, _)
ScanChunks(w, src, ctx, i, plan) ==
    ScanHeader(w, src, i, plan, OnRead(src, ctx, U64(8), plan))

\* the loop after the read of a chunk header
ScanHeader(w, src, i, plan, r) ==
    IF r.got # U64(8) \/ i > Len(w.chunks)
    THEN [ok |-> FALSE, ctx |-> r.ctx, dataSize |-> Zero64]
    ELSE IF w.chunks[i].id = "data"
    THEN [ok |-> TRUE, ctx |-> r.ctx, dataSize |-> drwav__read_u32(w.chunks[i].size)]
    ELSE ScanSkipped(w, src, i, plan,
                     SkipChunk(src, r.ctx,
                               PaddedSize(drwav__read_u32(w.chunks[i].size)), plan))

\* the loop after the seeks past a chunk
ScanSkipped(w, src, i, plan, sk) ==
    IF ~sk.ok THEN [ok |-> FALSE, ctx |-> sk.ctx, dataSize |-> Zero64]
    ELSE ScanChunks(w, src, sk.ctx, i + 1, plan)

\* drwav_open returning NULL
OpenNull(ctx) == [status |-> "null", ctx |-> ctx, pWav |-> NoWav, divZero |-> FALSE]

\* drwav_open, the drwav it fills.  A division by zero is undefined:
\* ub = "trap" traps, ub = "zero" yields quotient 0.
OpenWav(fmt, sc, ub, bytesPerSample) ==
    IF bytesPerSample = 0 /\ ub = "trap"
    THEN [status |-> "trap", ctx |-> sc.ctx, pWav |-> NoWav, divZero |-> TRUE]
    ELSE [status |-> "open", ctx |-> sc.ctx,
          pWav |-> [fmt |-> fmt,
                    sampleRate |-> fmt.sampleRate,
                    channels |-> fmt.channels,
                    bitsPerSample |-> fmt.bitsPerSample,
                    bytesPerSample |-> bytesPerSample,
                    translatedFormatTag |->
                        IF fmt.formatTag = DR_WAVE_FORMAT_EXTENSIBLE
                        THEN SubFormatTag(fmt.subFormat)
                        ELSE fmt.formatTag,
                    totalSampleCount |->
                        IF bytesPerSample = 0 THEN Zero64
                        ELSE Div64(sc.dataSize, bytesPerSample),
                    bytesRemaining |-> sc.dataSize],
          divZero |-> bytesPerSample = 0]

\* drwav_open after the chunk loop
OpenData(fmt, ub, sc) ==
    IF ~sc.ok THEN OpenNull(sc.ctx)
    ELSE OpenWav(fmt, sc, ub,
                 IF fmt.channels = 0 THEN 0 ELSE fmt.blockAlign \div fmt.channels)

\* drwav_open after drwav__read_fmt
OpenFmt(w, src, plan, ub, f) ==
    IF ~f.ok THEN OpenNull(f.ctx)
    ELSE OpenData(f.fmt, ub, ScanChunks(w, src, f.ctx, 1, plan))

\* OpenRiff without the check of the RIFF chunk size
OpenRiffAnySize(w, src, plan, fmtStack, ub, r) ==
    IF r.got # U64(12) THEN OpenNull(r.ctx)
    ELSE IF w.riffId # "RIFF" THEN OpenNull(r.ctx)
    ELSE IF w.waveId # "WAVE" THEN OpenNull(r.ctx)
    ELSE OpenFmt(w, src, plan, ub, drwav__read_fmt(w, src, r.ctx, plan, fmtStack))

\* drwav_open after the read of the 12-byte RIFF header
OpenRiff(w, src, plan, fmtStack, ub, r) ==
    IF r.got # U64(12) THEN OpenNull(r.ctx)
    ELSE IF w.riffId # "RIFF" THEN OpenNull(r.ctx)
    ELSE IF Lt64(drwav__read_u32(w.riffSize), U64(36)) THEN OpenNull(r.ctx)
    ELSE IF w.waveId # "WAVE" THEN OpenNull(r.ctx)
    ELSE OpenFmt(w, src, plan, ub, drwav__read_fmt(w, src, r.ctx, plan, fmtStack))

\* drwav_open: [status, ctx, pWav, divZero].  status is "open" (a drwav was
\* returned), "null" (NULL was returned) or "trap" (a division by zero
\* trapped); divZero: a division by zero was evaluated.  fmtStack is the
\* content of the local drwav_fmt before drwav__read_fmt fills it
\* (indeterminate).
drwav_open(w, src, plan, fmtStack, ub) ==
    OpenRiff(w, src, plan, fmtStack, ub, OnRead(src, Ctx(Zero64), U64(12), plan))

----------------------------------------------------------------------------
(* Resources.  res is [held, released]: the resources held by the program  *)
(* and the releases made, in order.  "FILE" is the stream of fopen,        *)
(* "drwav_memory" the block drwav_open_memory allocates, "drwav" the       *)
(* object drwav_open allocates.  fopen and malloc succeed.                  *)

NoRes == [held |-> {}, released |-> <<>>]

\* what a convenience opener acquires before it calls drwav_open
OpenerAcquires(src) == IF src.kind = "stdio" THEN "FILE" ELSE "drwav_memory"

\* drwav_open_file / drwav_open_memory: the resources when the opener
\* returns what drwav_open (o) returned.  drwav_open allocates the drwav
\* after the chunk scan; the opener returns its result as it is
OpenerHolds(src, o) ==
    [held |-> {OpenerAcquires(src)}
              \cup (IF o.status \in {"open", "trap"} THEN {"drwav"} ELSE {}),
     released |-> <<>>]

\* drwav_close(pWav); isNull: pWav is NULL.  The callbacks of pWav tell
\* which opener made it
drwav_close(isNull, src, res) ==
    IF isNull THEN res
    ELSE [held |-> res.held \ {OpenerAcquires(src), "drwav"},
          released |-> res.released \o <<OpenerAcquires(src), "drwav">>]

----------------------------------------------------------------------------
(* The sample stream.  Each operator answers a record with the return      *)
(* value (ret), the drwav after the call (pWav), the context after it      *)
(* (ctx), and for reads the source offset the delivered bytes start at     *)
(* (start) and how many bytes the source delivered (got).                  *)

\* RawRead without the update of bytesRemaining
RawReadKeepsRemaining(pWav, r) ==
    [ret |-> r.got, pWav |-> pWav, ctx |-> r.ctx, start |-> r.start, got |-> r.got]

\* drwav_read_raw after the onRead call
RawRead(pWav, r) ==
    [ret |-> r.got,
     pWav |-> [pWav EXCEPT !.bytesRemaining = Sub64(pWav.bytesRemaining, r.got)],
     ctx |-> r.ctx, start |-> r.start, got |-> r.got]

\* drwav_read_raw without the clamp of bytesToRead to bytesRemaining
drwav_read_raw_unclamped(pWav, src, ctx, bufNull, bytesToRead, plan) ==
    IF bytesToRead = Zero64 \/ bufNull
    THEN [ret |-> Zero64, pWav |-> pWav, ctx |-> ctx, start |-> ctx.pos, got |-> Zero64]
    ELSE RawRead(pWav, OnRead(src, ctx, bytesToRead, plan))

\* drwav_read_raw; bufNull: pBufferOut is NULL
drwav_read_raw(pWav, src, ctx, bufNull, bytesToRead, plan) ==
    IF bytesToRead = Zero64 \/ bufNull
    THEN [ret |-> Zero64, pWav |-> pWav, ctx |-> ctx, start |-> ctx.pos, got |-> Zero64]
    ELSE RawRead(pWav,
                 OnRead(src, ctx,
                        IF Lt64(pWav.bytesRemaining, bytesToRead)
                        THEN pWav.bytesRemaining
                        ELSE bytesToRead,
                        plan))

\* drwav_read after the drwav_read_raw call: bytesRead / bytesPerSample
SamplesRead(bytesPerSample, ub, raw) ==
    [ret |-> IF bytesPerSample = 0 THEN Zero64 ELSE Div64(raw.ret, bytesPerSample),
     pWav |-> raw.pWav, ctx |-> raw.ctx, start |-> raw.start, got |-> raw.got,
     trap |-> bytesPerSample = 0 /\ ub = "trap", divZero |-> bytesPerSample = 0]

\* drwav_read: as drwav_read_raw, plus trap (a division by zero trapped) and
\* divZero (a division by zero was evaluated).
\* With bytesPerSample 0 both divisions are undefined: ub = "trap" traps at
\* the first, ub = "zero" yields 0 for both.
drwav_read(pWav, src, ctx, samplesToRead, bufNull, bufferOutSize, plan, ub) ==
    IF samplesToRead = Zero64 \/ bufNull
    THEN [ret |-> Zero64, pWav |-> pWav, ctx |-> ctx, start |-> ctx.pos,
          got |-> Zero64, trap |-> FALSE, divZero |-> FALSE]
    ELSE IF pWav.bytesPerSample = 0
    THEN SamplesRead(0, ub,
                     IF ub = "trap"
                     THEN [ret |-> Zero64, pWav |-> pWav, ctx |-> ctx,
                           start |-> ctx.pos, got |-> Zero64]
                     ELSE drwav_read_raw(pWav, src, ctx, bufNull, Zero64, plan))
    ELSE SamplesRead(pWav.bytesPerSample, ub,
                     drwav_read_raw(pWav, src, ctx, bufNull,
                                    Mul64(Min64(samplesToRead,
                                                Div64(bufferOutSize, pWav.bytesPerSample)),
                                          pWav.bytesPerSample),
                                    plan))

\* the while (offset > 0) loop of drwav_seek: [bytesRemaining, ctx]
RECURSIVE SeekLoop(_, _, _, _, _, _)
SeekLoop(src, ctx, bytesRemaining, offset, direction, plan) ==
    IF ~Lt64(Zero64, offset) THEN [bytesRemaining |-> bytesRemaining, ctx |-> ctx]
    ELSE LET offset32 == IF Lt64(U64(INT_MAX), offset) THEN INT_MAX ELSE ToInt(offset)
         IN  SeekLoop(src, OnSeek(src, ctx, offset32 * direction, plan).ctx,
                      AddInt64(bytesRemaining, -(offset32 * direction)),
                      Sub64(offset, U64(offset32)), direction, plan)

\* drwav_seek after the loop
Seeked(pWav, l) ==
    [ret |-> 1, pWav |-> [pWav EXCEPT !.bytesRemaining = l.bytesRemaining],
     ctx |-> l.ctx, abort |-> FALSE]

\* drwav_seek from the assert on, sample being clamped
SeekTo(pWav, src, ctx, plan, totalSizeInBytes, currentBytePos, targetBytePos) ==
    IF ~Le64(pWav.bytesRemaining, totalSizeInBytes)
    THEN [ret |-> 0, pWav |-> pWav, ctx |-> ctx, abort |-> TRUE]
    ELSE IF Lt64(currentBytePos, targetBytePos)
    THEN Seeked(pWav, SeekLoop(src, ctx, pWav.bytesRemaining,
                               Sub64(targetBytePos, currentBytePos), 1, plan))
    ELSE Seeked(pWav, SeekLoop(src, ctx, pWav.bytesRemaining,
                               Sub64(currentBytePos, targetBytePos), -1, plan))

\* the sample index drwav_seek clamps sample to
ClampSample(pWav, sample) ==
    IF Le64(pWav.totalSampleCount, sample)
    THEN Sub64(pWav.totalSampleCount, U64(1))
    ELSE sample

\* drwav_seek: ret is the int returned; abort: the assert failed
drwav_seek(pWav, src, ctx, sample, plan) ==
    IF pWav.totalSampleCount = Zero64
    THEN [ret |-> 1, pWav |-> pWav, ctx |-> ctx, abort |-> FALSE]
    ELSE SeekTo(pWav, src, ctx, plan,
                Mul64(pWav.totalSampleCount, pWav.bytesPerSample),
                Sub64(Mul64(pWav.totalSampleCount, pWav.bytesPerSample),
                      pWav.bytesRemaining),
                Mul64(ClampSample(pWav, sample), pWav.bytesPerSample))

\* the bytes of pPCM drwav__pcm_to_f32 reads for n samples, as the length
\* of the stretch from pPCM[0] to the last byte read: the converters of 1
\* to 4 bytes read every byte, the generic one the 4 leading bytes of each
\* sample
PcmReads(n, bytesPerSample) ==
    IF bytesPerSample \in 1..4 THEN n * bytesPerSample
    ELSE IF n = 0 \/ bytesPerSample = 0 THEN 0
    ELSE (n - 1) * bytesPerSample + 4

\* the same for drwav__ieee_to_f32: n floats when bytesPerSample == 32, n
\* doubles (drwav_f64_to_f32) otherwise
IeeeReads(n, bytesPerSample) ==
    IF bytesPerSample = 32 THEN n * 4 ELSE n * 8

\* the same for the converter drwav_read_f32 applies to n samples of
\* sampleData (drwav_alaw_to_f32 and drwav_ulaw_to_f32 read n bytes)
ConverterReads(pWav, n) ==
    IF pWav.translatedFormatTag = DR_WAVE_FORMAT_PCM
    THEN U64(PcmReads(n, pWav.bytesPerSample))
    ELSE IF pWav.translatedFormatTag = DR_WAVE_FORMAT_IEEE_FLOAT
    THEN U64(IeeeReads(n, pWav.bytesPerSample))
    ELSE U64(n)

\* what a converter that reads sampleData[4096] beyond its end (undefined)
\* does: the read kills the process, or it yields bytes of the stack and
\* the call goes on
OverReadUBs == {"segv", "goes on"}

\* the read loop of drwav_read_f32.  acc is [total, start, got, stages]:
\* totalSamplesRead, where the bytes read start in the source, how many the
\* source delivered, and per drwav_read that returned samples, the samples
\* it returned, the bytes it placed in sampleData and the bytes of
\* sampleData the converter then reads.  env is [plan, ub, over].  segv:
\* the converter was killed reading beyond sampleData.
RECURSIVE F32Loop(_, _, _, _, _, _)
RECURSIVE F32Stage(_, _, _, _, _)
F32Loop(pWav, src, ctx, samplesToRead, acc, env) ==
    IF ~Lt64(Zero64, samplesToRead)
    THEN [ret |-> acc.total, pWav |-> pWav, ctx |-> ctx, start |-> acc.start,
          got |-> acc.got, trap |-> FALSE, segv |-> FALSE, divZero |-> FALSE,
          stages |-> acc.stages]
    ELSE F32Stage(src, samplesToRead, acc, env,
                  drwav_read(pWav, src, ctx, samplesToRead, FALSE, U64(4096),
                             env.plan, env.ub))

\* the loop after one drwav_read into sampleData[4096]
F32Stage(src, samplesToRead, acc, env, r) ==
    IF r.trap \/ r.ret = Zero64
    THEN [ret |-> acc.total, pWav |-> r.pWav, ctx |-> r.ctx,
          start |-> IF acc.got = Zero64 THEN r.start ELSE acc.start,
          got |-> Add64(acc.got, r.got), trap |-> r.trap, segv |-> FALSE,
          divZero |-> r.divZero, stages |-> acc.stages]
    ELSE IF Lt64(U64(4096), ConverterReads(r.pWav, ToInt(r.ret))) /\ env.over = "segv"
    THEN [ret |-> acc.total, pWav |-> r.pWav, ctx |-> r.ctx,
          start |-> IF acc.got = Zero64 THEN r.start ELSE acc.start,
          got |-> Add64(acc.got, r.got), trap |-> FALSE, segv |-> TRUE,
          divZero |-> FALSE,
          stages |-> Append(acc.stages,
                            [samplesRead |-> r.ret, placed |-> r.got,
                             reads |-> ConverterReads(r.pWav, ToInt(r.ret))])]
    ELSE F32Loop(r.pWav, src, r.ctx, Sub64(samplesToRead, r.ret),
                 [total |-> Add64(acc.total, r.ret),
                  start |-> IF acc.got = Zero64 THEN r.start ELSE acc.start,
                  got |-> Add64(acc.got, r.got),
                  stages |-> Append(acc.stages,
                                    [samplesRead |-> r.ret, placed |-> r.got,
                                     reads |-> ConverterReads(r.pWav, ToInt(r.ret))])],
                 env)

\* drwav_read_f32 (pBufferOut not NULL)
drwav_read_f32(pWav, src, ctx, samplesToRead, plan, ub, over) ==
    IF samplesToRead = Zero64
    THEN [ret |-> Zero64, pWav |-> pWav, ctx |-> ctx, start |-> ctx.pos,
          got |-> Zero64, trap |-> FALSE, segv |-> FALSE, divZero |-> FALSE,
          stages |-> <<>>]
    ELSE IF pWav.translatedFormatTag = DR_WAVE_FORMAT_IEEE_FLOAT /\ pWav.bytesPerSample = 4
    THEN drwav_read(pWav, src, ctx, samplesToRead, FALSE,
                    Mul64(samplesToRead, 4), plan, ub)
         @@ [stages |-> <<>>, segv |-> FALSE]
    ELSE IF pWav.translatedFormatTag \in
              {DR_WAVE_FORMAT_PCM, DR_WAVE_FORMAT_IEEE_FLOAT,
               DR_WAVE_FORMAT_ALAW, DR_WAVE_FORMAT_MULAW}
    THEN F32Loop(pWav, src, ctx, samplesToRead,
                 [total |-> Zero64, start |-> ctx.pos, got |-> Zero64, stages |-> <<>>],
                 [plan |-> plan, ub |-> ub, over |-> over])
    ELSE [ret |-> Zero64, pWav |-> pWav, ctx |-> ctx, start |-> ctx.pos,
          got |-> Zero64, trap |-> FALSE, segv |-> FALSE, divZero |-> FALSE,
          stages |-> <<>>]

----------------------------------------------------------------------------
(* Conversion to 32-bit float.  An unsigned int or int is 4 bytes, least    *)
(* significant first, where its bits matter.  A float is [mant, exp]: the   *)
(* value mant * 2^(exp - 31), mant odd or 0 (|mant| < 2^24); for 0, exp is  *)
(* 0.                                                                      *)

RECURSIVE Pow2(_)
Pow2(k) == IF k = 0 THEN 1 ELSE 2 * Pow2(k - 1)

\* a | b on bytes
RECURSIVE ByteOr(_, _)
ByteOr(a, b) ==
    IF a = 0 /\ b = 0 THEN 0
    ELSE (IF a % 2 = 1 \/ b % 2 = 1 THEN 1 ELSE 0) + 2 * ByteOr(a \div 2, b \div 2)

\* (int)u of an unsigned int u
Int32Of(u) ==
    u[1] + 256 * u[2] + 65536 * u[3]
    + 16777216 * (IF u[4] >= 128 THEN u[4] - 256 ELSE u[4])

\* the float m * 2^(e - 31), m of at most 24 significant bits
RECURSIVE Canon(_, _)
Canon(m, e) ==
    IF m = 0 THEN [mant |-> 0, exp |-> 0]
    ELSE IF m % 2 = 0 THEN Canon(m \div 2, e + 1)
    ELSE [mant |-> m, exp |-> e]

\* the bits a > 0 has beyond 24
RECURSIVE Excess(_)
Excess(a) == IF a < 16777216 THEN 0 ELSE 1 + Excess(a \div 2)

\* a > 0 rounded to 24 significant bits, to nearest, ties to even, in units
\* of 2^Excess(a)
RoundAbs(a) ==
    LET q == Pow2(Excess(a))
    IN  (a \div q)
        + (IF 2 * (a % q) > q \/ (2 * (a % q) = q /\ (a \div q) % 2 = 1)
           THEN 1 ELSE 0)

\* (float)(n * 2^(e - 31)) of an int n
FloatOf(n, e) ==
    IF n = -2147483647 - 1 THEN Canon(-1, e + 31)
    ELSE IF n = 0 THEN Canon(0, 0)
    ELSE IF n < 0 THEN Canon(-RoundAbs(-n), e + Excess(-n))
    ELSE Canon(RoundAbs(n), e + Excess(n))

\* the quotient bits of x / 255.0f: e steps of binary long division of the
\* remainder r, then rounding to nearest (2r = 255 cannot happen)
RECURSIVE DivBy255(_, _, _)
DivBy255(q, r, e) ==
    IF e = 0 THEN q + (IF 2 * r > 255 THEN 1 ELSE 0)
    ELSE IF 2 * r >= 255 THEN DivBy255(2 * q + 1, 2 * r - 255, e - 1)
    ELSE DivBy255(2 * q, 2 * r, e - 1)

\* the least k with x * 2^k >= 255, for 0 < x < 255
RECURSIVE Below255(_)
Below255(x) == IF x >= 255 THEN 0 ELSE 1 + Below255(2 * x)

\* drwav_u8PCM_to_f32 of one sample: (x / 255.0f) * 2 - 1 in float
\* arithmetic.  x / 255.0f is m * 2^-(23 + k) with m of 24 bits; doubling it
\* is exact; m * 2^-(22 + k) - 1 is (m - 2^(22 + k)) * 2^-(22 + k), rounded
u8_to_f32(x) ==
    IF x = 0 THEN Canon(-1, 31)
    ELSE IF x = 255 THEN Canon(1, 31)
    ELSE LET k == Below255(x)
             m == DivBy255(0, x, 23 + k)
         IN  FloatOf(m - Pow2(22 + k), 31 - (22 + k))

\* drwav_s16PCM_to_f32 of one sample: s16PCM[i] / 32768.0f
s16_to_f32(b) ==
    FloatOf(b[1] + 256 * (IF b[2] >= 128 THEN b[2] - 256 ELSE b[2]), 16)

\* drwav_s24PCM_to_f32 of one sample
s24_to_f32(b) == FloatOf(Int32Of(<<0, b[1], b[2], b[3]>>), 0)

\* drwav_s32PCM_to_f32 of one sample
s32_to_f32(b) == FloatOf(Int32Of(<<b[1], b[2], b[3], b[4]>>), 0)

\* what a shift of an unsigned int by 32 bits or more (undefined) does: the
\* count is taken modulo 32, or every bit is shifted out
ShiftUBs == {"wrap", "zero"}

\* sample | (unsigned int)byte << shift.  shift is the signed integer that is
\* congruent modulo 2^32 to the unsigned int of the code; it is a multiple
\* of 8
OrShifted(sample, byte, shift, sh) ==
    IF (shift < 0 \/ shift >= 32) /\ sh = "zero" THEN sample
    ELSE [sample EXCEPT ![((shift % 32) \div 8) + 1] = ByteOr(@, byte)]

\* the inner loop of the generic converter from byte j of the sample s on:
\* acc is [sample, over], over: a shift by 32 bits or more was made
RECURSIVE PcmGather(_, _, _, _, _, _)
PcmGather(s, bytesPerSample, j, shift, acc, sh) ==
    IF ~(j < bytesPerSample /\ j < 4) THEN acc
    ELSE PcmGather(s, bytesPerSample, j + 1, shift + 8,
                   [sample |-> OrShifted(acc.sample, s[j + 1], shift, sh),
                    over |-> acc.over \/ shift < 0 \/ shift >= 32],
                   sh)

\* one sample through the generic converter
PcmGeneric(s, bytesPerSample, sh) ==
    PcmGather(s, bytesPerSample, 0, (8 - bytesPerSample) * 8,
              [sample |-> <<0, 0, 0, 0>>, over |-> FALSE], sh)

\* sample i (from 0) of the bytes pPCM
SampleAt(pPCM, bytesPerSample, i) ==
    SubSeq(pPCM, i * bytesPerSample + 1, (i + 1) * bytesPerSample)

\* drwav__pcm_to_f32 with non-null pointers, as drwav_read_f32 calls it:
\* [ret, out, over], out the floats written, over: a shift by 32 bits or
\* more was made
drwav__pcm_to_f32(totalSampleCount, pPCM, bytesPerSample, sh) ==
    [ret |-> 1,
     out |-> [i \in 1..totalSampleCount |->
                LET s == SampleAt(pPCM, bytesPerSample, i - 1)
                IN  IF bytesPerSample = 1 THEN u8_to_f32(s[1])
                    ELSE IF bytesPerSample = 2 THEN s16_to_f32(s)
                    ELSE IF bytesPerSample = 3 THEN s24_to_f32(s)
                    ELSE IF bytesPerSample = 4 THEN s32_to_f32(s)
                    ELSE FloatOf(Int32Of(PcmGeneric(s, bytesPerSample, sh).sample), 0)],
     over |-> /\ bytesPerSample \notin 1..4
              /\ \E i \in 1..totalSampleCount :
                    PcmGeneric(SampleAt(pPCM, bytesPerSample, i - 1),
                               bytesPerSample, sh).over]

----------------------------------------------------------------------------
(* The containers and sources explored                                     *)

\* skipped chunks before the data chunk: at most this many
MaxChunks == 2
\* operations on an opened decoder: at most this many
MaxOps == 3
\* a fault may hit any of the first MaxFaultAt callback invocations
MaxFaultAt == 5
\* sample indexes and sample counts passed by the caller: 0..MaxSample
MaxSample == 2

LE16(n) == <<n % 256, n \div 256>>
LE32(n) == <<ByteOf(n, 1), ByteOf(n, 2), ByteOf(n, 3), ByteOf(n, 4)>>

\* KSDATAFORMAT_SUBTYPE_<tag>: the tag, then 00 00 00 00 10 00 80 00 00 AA 00 38 9B 71
SubTypeGuid(tag) ==
    <<tag % 256, tag \div 256, 0, 0, 0, 0, 16, 0, 128, 0, 0, 170, 0, 56, 155, 113>>

\* sample formats: [tag, ch (channels), ba (blockAlign), sub (sub-format tag)]
Fmt(tag, ch, ba) == [tag |-> tag, ch |-> ch, ba |-> ba, sub |-> 0]

PCM16 == Fmt(DR_WAVE_FORMAT_PCM, 1, 2)

\* the large sample count a caller passes: more than one staging buffer of
\* drwav_read_f32 holds
ManySamples == 5000

\* sample formats with a data chunk size for each: 8-, 16-, 24- and 32-bit
\* PCM, PCM of 5 and of 5000 bytes per sample, 32- and 64-bit float, A-law,
\* mu-law, ADPCM, no channels, more channels than blockAlign bytes; the data
\* chunk empty, of 1, 2, 6 and ManySamples samples, and not a whole number
\* of samples
StreamCases ==
    { <<Fmt(DR_WAVE_FORMAT_PCM, 1, 1), ManySamples>>,
      <<PCM16, 0>>, <<PCM16, 5>>, <<PCM16, 4>>,
      <<Fmt(DR_WAVE_FORMAT_PCM, 1, 3), 6>>,
      <<Fmt(DR_WAVE_FORMAT_PCM, 2, 8), ManySamples * 4>>,
      <<Fmt(DR_WAVE_FORMAT_PCM, 1, 5), 5>>,
      <<Fmt(DR_WAVE_FORMAT_PCM, 1, 5000), 9000>>,
      <<Fmt(DR_WAVE_FORMAT_IEEE_FLOAT, 1, 4), ManySamples * 4>>,
      <<Fmt(DR_WAVE_FORMAT_IEEE_FLOAT, 1, 8), ManySamples * 8>>,
      <<Fmt(DR_WAVE_FORMAT_IEEE_FLOAT, 1, 2), ManySamples * 2>>,
      <<Fmt(DR_WAVE_FORMAT_IEEE_FLOAT, 1, 32), 64>>,
      <<Fmt(DR_WAVE_FORMAT_ALAW, 1, 1), 6>>,
      <<Fmt(DR_WAVE_FORMAT_MULAW, 2, 2), 6>>,
      <<Fmt(DR_WAVE_FORMAT_ADPCM, 1, 2), 6>>,
      <<Fmt(DR_WAVE_FORMAT_PCM, 0, 2), 6>>,
      <<Fmt(DR_WAVE_FORMAT_PCM, 2, 1), 6>> }

Chunk(id, size) == [id |-> id, size |-> size]

\* sizes of skipped chunks: 0, odd and 0xFFFFFFFF
SkipSizes == {LE32(0), LE32(3), <<255, 255, 255, 255>>}

\* lists of at most n skipped chunks
RECURSIVE SkipLists(_)
SkipLists(n) ==
    IF n = 0 THEN {<<>>}
    ELSE LET shorter == SkipLists(n - 1)
         IN  shorter \cup {Append(l, Chunk("LIST", z)) :
                            l \in {x \in shorter : Len(x) = n - 1}, z \in SkipSizes}

\* chunk lists: skipped chunks, then no data chunk, or a data chunk of d
\* bytes alone or followed by one more chunk
Layouts(d) ==
    LET skips == SkipLists(MaxChunks)
    IN  skips
        \cup {Append(l, Chunk("data", LE32(d))) : l \in skips}
        \cup {l \o <<Chunk("data", LE32(d)), Chunk("LIST", LE32(4))>> : l \in skips}

Wav(riffId, riffSize, waveId, fmtId, fmtSize, cbSize, f, chunks) ==
    [riffId |-> riffId, riffSize |-> LE32(riffSize), waveId |-> waveId,
     fmtId |-> fmtId, fmtSize |-> LE32(fmtSize),
     formatTag |-> LE16(f.tag), channels |-> LE16(f.ch),
     sampleRate |-> LE32(44100), avgBytesPerSec |-> LE32(44100 * f.ba),
     blockAlign |-> LE16(f.ba),
     bitsPerSample |-> LE16(IF f.ch = 0 THEN 16 ELSE 8 * (f.ba \div f.ch)),
     cbSize |-> LE16(cbSize), validBits |-> LE16(16), channelMask |-> LE32(4),
     subFormat |-> SubTypeGuid(f.sub), chunks |-> chunks]

\* well-formed header, format chunk of 16 bytes
Plain(f, chunks) == Wav("RIFF", 36, "WAVE", "fmt ", 16, 0, f, chunks)

\* the containers drwav_open is checked on
OpenContainers ==
    \* every header field at a good and a bad value
    { Wav(r, rs, v, fi, fs, cb, PCM16, c) :
        r \in {"RIFF", "RIFX"}, rs \in {35, 36}, v \in {"WAVE", "WAVX"},
        fi \in {"fmt ", "FMT "}, fs \in {14, 16, 18, 20, 40}, cb \in {0, 22},
        c \in { <<Chunk("data", LE32(6))>>,
                <<Chunk("LIST", LE32(3)), Chunk("data", LE32(6))>> } }
    \cup
    \* every sample format
    { Plain(c[1], <<Chunk("data", LE32(c[2]))>>) : c \in StreamCases }
    \cup
    \* the extensible format tag, with each format chunk size
    { Wav("RIFF", 36, "WAVE", "fmt ", fs, 22,
          [tag |-> DR_WAVE_FORMAT_EXTENSIBLE, ch |-> 1, ba |-> 4, sub |-> sub],
          <<Chunk("data", LE32(6))>>) :
        fs \in {16, 18, 40}, sub \in {DR_WAVE_FORMAT_PCM, DR_WAVE_FORMAT_IEEE_FLOAT} }
    \cup
    \* every chunk layout, with each format chunk size
    { Wav("RIFF", 36, "WAVE", "fmt ", fs, 22, PCM16, c) :
        fs \in {16, 18, 40}, c \in Layouts(6) }

\* 8-bit PCM with a skipped chunk and a data chunk of 0xFFFFFFFF bytes each
HugeContainer ==
    Plain(Fmt(DR_WAVE_FORMAT_PCM, 1, 1),
          <<Chunk("LIST", <<255, 255, 255, 255>>),
            Chunk("data", <<255, 255, 255, 255>>),
            Chunk("LIST", LE32(4))>>)

\* the containers the stream operations are checked on: every sample format,
\* the data chunk followed by one more chunk; and HugeContainer
StreamContainers ==
    { Plain(c[1], <<Chunk("data", LE32(c[2])), Chunk("LIST", LE32(4))>>) :
        c \in StreamCases }
    \cup {HugeContainer}

\* the bytes a chunk list occupies: 8 + size + pad for each chunk but the last,
\* 8 + size for the last
RECURSIVE ChunksLen(_, _)
ChunksLen(chunks, i) ==
    IF i > Len(chunks) THEN Zero64
    ELSE LET size == drwav__read_u32(chunks[i].size)
             body == IF i < Len(chunks) THEN PaddedSize(size) ELSE size
         IN  Add64(Add64(U64(8), body), ChunksLen(chunks, i + 1))

\* the bytes of the format chunk, header included
FmtLen(w) ==
    LET n == ToInt(drwav__read_u32(w.fmtSize)) IN 8 + (IF n < 16 THEN 16 ELSE n)

\* the length of the whole container
NominalLen(w) == Add64(U64(12 + FmtLen(w)), ChunksLen(w.chunks, 1))

\* a source of kind k holding w without its last t bytes (a truncated file)
Source(k, w0, t) == [kind |-> k, len |-> Sub64(NominalLen(w0), U64(t))]

OpenSources(w0) ==
    {Source(k, w0, t) : k \in {"memory", "stdio"}, t \in {0, 1, 9, 20}}

\* the declared size of the first data chunk (0 when there is none)
RECURSIVE DataSize(_, _)
DataSize(chunks, i) ==
    IF i > Len(chunks) THEN Zero64
    ELSE IF chunks[i].id = "data" THEN drwav__read_u32(chunks[i].size)
    ELSE DataSize(chunks, i + 1)

\* whole, and a buffer without the last chunk (12 bytes) and all but one of
\* the declared bytes of the data
StreamSources(w0) ==
    { Source("memory", w0, 0),
      [kind |-> "memory",
       len |-> Sub64(NominalLen(w0),
                     Add64(U64(12),
                           IF DataSize(w0.chunks, 1) = Zero64 THEN Zero64
                           ELSE Sub64(DataSize(w0.chunks, 1), U64(1))))],
      Source("stdio", w0, 0) }

\* the tags drwav_read_f32 tells apart
ConvertedTags ==
    {DR_WAVE_FORMAT_PCM, DR_WAVE_FORMAT_IEEE_FLOAT, DR_WAVE_FORMAT_ALAW,
     DR_WAVE_FORMAT_MULAW}

\* what the uninitialised local drwav_fmt of drwav_open holds in the fields
\* drwav__read_fmt leaves alone when chunkSize is 18: indeterminate values.
\* Where the code reads them (the first two bytes of subFormat, as the tag of
\* a WAVE_FORMAT_EXTENSIBLE stream) the choice is over every value the code
\* tells apart: each tag of ConvertedTags, and any other value, which stays
\* indeterminate
FmtStacks ==
    { [NoFmt EXCEPT !.extendedSize = Indet, !.validBitsPerSample = Indet,
                    !.channelMask = IndetU32,
                    !.subFormat = [i \in 1..16 |-> IF i <= 2 THEN t[i] ELSE Indet]] :
        t \in {LE16(tag) : tag \in ConvertedTags} \cup {<<Indet, Indet>>} }

UBs == {"trap", "zero"}

----------------------------------------------------------------------------
(* The state machine: one source holding one container, opened once and    *)
(* then read and seeked by the caller.                                     *)

VARIABLES
    w,          \* the container the source holds
    src,        \* the source: [kind, len]
    srcPos,     \* the source's position (currentReadPos, the FILE's position)
    status,     \* "closed": not opened yet; "open": drwav_open returned pWav;
                \* "null": it returned NULL; "trap": a division by zero
                \* trapped; "abort": an assert failed; "segv": a read
                \* beyond sampleData killed the process; "done":
                \* drwav_close was called
    pWav,       \* the drwav object (NoWav unless status = "open")
    dataStart,  \* the source position when drwav_open returned pWav
    last,       \* the last operation: its name, arguments and results
    hist,       \* the operations made on the opened decoder, in order
    nOps,       \* operations made on the opened decoder
    conv,       \* a call of a sample converter: its arguments and results
    res         \* the resources held and the releases made

vars == <<w, src, srcPos, status, pWav, dataStart, last, hist, nOps, conv, res>>

\* the record of an operation.  op: its name; a, b: its arguments; ret: its
\* return value; start, got: where the bytes it read start in the source and
\* how many the source delivered; log: the offsets it passed to onSeek;
\* seekFail: an onSeek call reported failure; fault: the fault plan hit one
\* of its callback invocations; short: an onRead call delivered fewer bytes
\* than asked for; calls: its callback invocations; before, posBefore:
\* bytesRemaining and the source position when it was called; stages: the
\* staging chunks of drwav_read_f32; divZero: it divided by zero
Op(op, a, b, r, plan, before, posBefore) ==
    [op |-> op, a |-> a, b |-> b, ret |-> r.ret, start |-> r.start, got |-> r.got,
     log |-> r.ctx.log, seekFail |-> r.ctx.seekFail, short |-> r.ctx.short,
     fault |-> plan.at >= 1 /\ plan.at <= r.ctx.calls, calls |-> r.ctx.calls,
     before |-> before, posBefore |-> posBefore,
     stages |-> r.stages, divZero |-> r.divZero]

NoOp ==
    [op |-> "none", a |-> Zero64, b |-> Zero64, ret |-> Zero64, start |-> Zero64,
     got |-> Zero64, log |-> <<>>, seekFail |-> FALSE, short |-> FALSE,
     fault |-> FALSE, calls |-> 0,
     before |-> Zero64, posBefore |-> Zero64, stages |-> <<>>, divZero |-> FALSE]

\* no converter call
NoConv ==
    [fn |-> "none", totalSampleCount |-> 0, pPCM |-> <<>>, bytesPerSample |-> 0,
     sh |-> "wrap", done |-> FALSE, ret |-> 0, out |-> <<>>, over |-> FALSE]

Start ==
    /\ conv = NoConv
    /\ res = NoRes
    /\ srcPos = Zero64
    /\ status = "closed"
    /\ pWav = NoWav
    /\ dataStart = Zero64
    /\ last = NoOp
    /\ hist = <<>>
    /\ nOps = 0

Init ==
    /\ w \in StreamContainers
    /\ src \in StreamSources(w)
    /\ Start

InitOpen ==
    /\ w \in OpenContainers
    /\ src \in OpenSources(w)
    /\ Start


\* fault plans that can hit one of the first n callback invocations;
\* keeps: what a failing read may still deliver.  A run has at most one
\* I/O fault.
PlansFor(n, keeps) ==
    IF src.kind = "memory" \/ \E i \in 1..Len(hist) : hist[i].fault THEN {NoFault}
    ELSE {NoFault} \cup {[at |-> a, keep |-> k] : a \in 1..n, k \in keeps}

\* outcomes of the converter of drwav_read_f32 on wav: only that of IEEE
\* float of fewer than 8 bytes per sample (other than 4) can read beyond
\* sampleData
OverReadUBsFor(wav) ==
    IF /\ wav.translatedFormatTag = DR_WAVE_FORMAT_IEEE_FLOAT
       /\ wav.bytesPerSample \in 1..7
       /\ wav.bytesPerSample # 4
    THEN OverReadUBs ELSE {"goes on"}

\* outcomes of a division by bytesPerSample (undefined when it is 0)
UBsFor(wav) == IF wav.bytesPerSample = 0 THEN UBs ELSE {"zero"}

\* drwav_open_memory(data, dataSize) / drwav_open_file(filename)
Open ==
    /\ status = "closed"
    /\ \E plan \in PlansFor(MaxFaultAt, {0, 1}), fmtStack \in FmtStacks, ub \in UBs :
         \E o \in {drwav_open(w, src, plan, fmtStack, ub)} :
             /\ status' = o.status
             /\ pWav' = o.pWav
             /\ srcPos' = o.ctx.pos
             /\ dataStart' = IF o.status = "open" THEN o.ctx.pos ELSE Zero64
             /\ res' = OpenerHolds(src, o)
             /\ last' = Op("open", Zero64, Zero64,
                           [ret |-> Zero64, start |-> Zero64, got |-> Zero64,
                            ctx |-> o.ctx, stages |-> <<>>, divZero |-> o.divZero],
                           plan, Zero64, Zero64)
    /\ UNCHANGED <<w, src, hist, nOps, conv>>

\* byte counts and sample counts a caller passes
Counts == {U64(n) : n \in 0..MaxSample} \cup {U64(ManySamples)}

\* buffer sizes a caller passes
BufSizes == {U64(1), U64(INT_MAX)}

\* sample indexes a caller seeks to; the last is 2^64 - 1
Samples == {U64(n) : n \in 0..MaxSample} \cup {Sub64(Zero64, U64(1))}

CanCall == status = "open" /\ nOps < MaxOps

\* what hist keeps of an operation
Brief(o) == [op |-> o.op, a |-> o.a, b |-> o.b, ret |-> o.ret, fault |-> o.fault]

Called ==
    /\ nOps' = nOps + 1
    /\ hist' = Append(hist, Brief(last'))
    /\ UNCHANGED <<w, src, dataStart, conv, res>>

ReadRaw ==
    /\ CanCall
    /\ \E bytesToRead \in Counts, plan \in PlansFor(1, {0, 1}) :
       \E bufNull \in IF bytesToRead = U64(1) THEN BOOLEAN ELSE {FALSE} :
         \E r \in {drwav_read_raw(pWav, src, Ctx(srcPos), bufNull, bytesToRead, plan)} :
             /\ pWav' = r.pWav
             /\ srcPos' = r.ctx.pos
             /\ status' = status
             /\ last' = Op("read_raw", bytesToRead, IF bufNull THEN Zero64 ELSE U64(1),
                           r @@ [stages |-> <<>>, divZero |-> FALSE],
                           plan, pWav.bytesRemaining, srcPos)
    /\ Called

Read ==
    /\ CanCall
    /\ \E samplesToRead \in Counts, bufferOutSize \in BufSizes,
          plan \in PlansFor(1, {1}), ub \in UBsFor(pWav) :
         \E r \in {drwav_read(pWav, src, Ctx(srcPos), samplesToRead, FALSE,
                              bufferOutSize, plan, ub)} :
             /\ pWav' = r.pWav
             /\ srcPos' = r.ctx.pos
             /\ status' = IF r.trap THEN "trap" ELSE status
             /\ last' = Op("read", samplesToRead, bufferOutSize,
                           r @@ [stages |-> <<>>],
                           plan, pWav.bytesRemaining, srcPos)
    /\ Called

Seek ==
    /\ CanCall
    /\ \E sample \in Samples, plan \in PlansFor(1, {0}) :
         \E r \in {drwav_seek(pWav, src, Ctx(srcPos), sample, plan)} :
             /\ pWav' = r.pWav
             /\ srcPos' = r.ctx.pos
             /\ status' = IF r.abort THEN "abort" ELSE status
             /\ last' = Op("seek", sample, Zero64,
                           [ret |-> U64(r.ret), start |-> srcPos, got |-> Zero64,
                            ctx |-> r.ctx, stages |-> <<>>, divZero |-> FALSE],
                           plan, pWav.bytesRemaining, srcPos)
    /\ Called

ReadF32 ==
    /\ CanCall
    /\ \E samplesToRead \in Counts \ {Zero64}, plan \in PlansFor(2, {1}),
          ub \in UBsFor(pWav), over \in OverReadUBsFor(pWav) :
         \E r \in {drwav_read_f32(pWav, src, Ctx(srcPos), samplesToRead, plan, ub, over)} :
             /\ pWav' = r.pWav
             /\ srcPos' = r.ctx.pos
             /\ status' = IF r.trap THEN "trap" ELSE IF r.segv THEN "segv" ELSE status
             /\ last' = Op("read_f32", samplesToRead, Zero64,
                           r,
                           plan, pWav.bytesRemaining, srcPos)
    /\ Called

Next == Open \/ ReadRaw \/ Read \/ Seek \/ ReadF32

\* the stream operations, over every sample format
Spec == Init /\ [][Next]_vars

\* drwav_open alone, over every header and chunk layout
SpecOpen == InitOpen /\ [][Open]_vars

\* drwav_close on what the opener returned, NULL included
Close ==
    /\ status \in {"open", "null"}
    /\ res' = drwav_close(status = "null", src, res)
    /\ status' = "done"
    /\ pWav' = NoWav
    /\ last' = [NoOp EXCEPT !.op = "close",
                            !.a = IF status = "null" THEN Zero64 ELSE U64(1)]
    /\ UNCHANGED <<w, src, srcPos, dataStart, hist, nOps, conv>>

NextClose == Open \/ Close

\* an opener and drwav_close, over every header and chunk layout
SpecClose == InitOpen /\ [][NextClose]_vars

\* byte values of PCM samples
PcmBytes == {1, 128, 255}

\* the bytes of one sample of n bytes: the 4 leading bytes vary, the bytes
\* beyond them are all 0 or all 255
PcmSamples(n) ==
    IF n <= 4 THEN [1..n -> PcmBytes \cup {0}]
    ELSE { [j \in 1..n |-> IF j <= 4 THEN h[j] ELSE t] :
             h \in [1..4 -> PcmBytes], t \in {0, 255} }

\* a second sample, for the calls with 2 samples
OtherSample(n) == [j \in 1..n |-> (37 * j) % 256]

\* the calls of drwav__pcm_to_f32 explored: 1 or 2 samples of 1 to 9 bytes;
\* the outcome of an undefined shift varies where one is made
InitPcm ==
    /\ conv \in UNION { { [fn |-> "drwav__pcm_to_f32", totalSampleCount |-> c,
                            pPCM |-> IF c = 1 THEN s ELSE s \o OtherSample(n),
                            bytesPerSample |-> n, sh |-> sh, done |-> FALSE,
                            ret |-> 0, out |-> <<>>, over |-> FALSE] :
                           s \in PcmSamples(n), c \in 1..2,
                           sh \in IF n \in {5, 6, 7, 9} THEN ShiftUBs ELSE {"wrap"} } :
                         n \in 1..9 }
    /\ res = NoRes
    /\ w = HugeContainer
    /\ src = Source("memory", w, 0)
    /\ srcPos = Zero64
    /\ status = "closed"
    /\ pWav = NoWav
    /\ dataStart = Zero64
    /\ last = NoOp
    /\ hist = <<>>
    /\ nOps = 0

\* drwav__pcm_to_f32(totalSampleCount, pPCM, bytesPerSample, f32Out)
PcmToF32 ==
    /\ conv.fn = "drwav__pcm_to_f32"
    /\ ~conv.done
    /\ \E r \in {drwav__pcm_to_f32(conv.totalSampleCount, conv.pPCM,
                                    conv.bytesPerSample, conv.sh)} :
          conv' = [conv EXCEPT !.done = TRUE, !.ret = r.ret, !.out = r.out,
                               !.over = r.over]
    /\ UNCHANGED <<w, src, srcPos, status, pWav, dataStart, last, hist, nOps, res>>

\* drwav__pcm_to_f32 alone, over sample widths and byte values
SpecPcm == InitPcm /\ [][PcmToF32]_vars

----------------------------------------------------------------------------
(* Properties                                                              *)

\* the formats drwav_read_f32 converts
SupportedFormat ==
    pWav.translatedFormatTag \in
        {DR_WAVE_FORMAT_PCM, DR_WAVE_FORMAT_IEEE_FLOAT,
         DR_WAVE_FORMAT_ALAW, DR_WAVE_FORMAT_MULAW}

\* the declared size of the format chunk (below 2^31 in every container)
FmtSize == ToInt(drwav__read_u32(w.fmtSize))

\* the source holds the whole container
WholeSource == src.len = NominalLen(w)

\* the decoder was opened on a whole, valid container whose data chunk holds
\* exactly totalSampleCount whole samples of a supported format; since then
\* only drwav_read was called, no call met an I/O fault, and the first call
\* asked for totalSampleCount samples into a buffer that holds them
ReadAllCase ==
    /\ Len(hist) >= 1
    /\ WholeSource
    /\ SupportedFormat
    /\ pWav.bytesPerSample > 0
    /\ Mod64(DataSize(w.chunks, 1), pWav.bytesPerSample) = 0
    /\ \A i \in 1..Len(hist) : hist[i].op = "read" /\ ~hist[i].fault
    /\ hist[1].a = pWav.totalSampleCount
    /\ Le64(Mul64(hist[1].a, pWav.bytesPerSample), hist[1].b)

\* C1: on a valid container whose data chunk holds exactly N whole samples of
\* a supported format, the first drwav_read after drwav_open, asking for N
\* samples into a buffer of at least N * bytesPerSample bytes, returns N, and
\* every later drwav_read (no seek in between) returns 0.
C1_ReadAllThenZero ==
    ReadAllCase =>
        /\ hist[1].ret = pWav.totalSampleCount
        /\ \A i \in 2..Len(hist) : hist[i].ret = Zero64

\* C1 happens: ManySamples float samples were read by the first call, and a
\* second call that asked for samples returned 0
C1_Witness ==
    /\ ReadAllCase
    /\ Len(hist) = 2
    /\ pWav.translatedFormatTag = DR_WAVE_FORMAT_IEEE_FLOAT
    /\ hist[1].ret = U64(ManySamples)
    /\ hist[2].a # Zero64
    /\ hist[2].b = U64(INT_MAX)
    /\ hist[2].ret = Zero64

\* the bytes of sample k a fresh decoder over the same source is delivered
\* when it reads up to it: [start, got]
Sequential(k) ==
    [start |-> Add64(dataStart, Mul64(k, pWav.bytesPerSample)),
     got |-> Min64(U64(pWav.bytesPerSample),
                   Avail(src, Add64(dataStart, Mul64(k, pWav.bytesPerSample))))]

\* C2: whatever drwav_read, drwav_read_raw and drwav_seek calls came before,
\* drwav_seek(k) with k < totalSampleCount followed by a drwav_read of one
\* sample delivers the bytes a fresh decoder reading sequentially finds at
\* sample k (no call having met an I/O fault).
C2_SeekThenReadIsSequential ==
    (/\ status = "open"
     /\ Len(hist) >= 2
     /\ \A i \in 1..Len(hist) : ~hist[i].fault
     /\ hist[Len(hist) - 1].op = "seek"
     /\ Lt64(hist[Len(hist) - 1].a, pWav.totalSampleCount)
     /\ last.op = "read"
     /\ last.a = U64(1)
     /\ Le64(U64(pWav.bytesPerSample), last.b))
    => /\ last.got = Sequential(hist[Len(hist) - 1].a).got
       /\ last.got # Zero64 => last.start = Sequential(hist[Len(hist) - 1].a).start

\* C3: with totalSampleCount > 0, drwav_seek to an index >= totalSampleCount
\* returns with exactly one sample (bytesPerSample bytes) left to read; with
\* totalSampleCount = 0 it returns success, calls no callback and leaves
\* bytesRemaining as it was.
C3_SeekClamps ==
    last.op = "seek" =>
        IF pWav.totalSampleCount = Zero64
        THEN /\ status = "open"
             /\ last.ret # Zero64
             /\ last.calls = 0
             /\ pWav.bytesRemaining = last.before
        ELSE Le64(pWav.totalSampleCount, last.a) =>
                /\ status = "open"
                /\ pWav.bytesRemaining = U64(pWav.bytesPerSample)

\* C4: a drwav_seek during which an onSeek call reported failure returns 0.
C4_SeekReportsFailure ==
    (last.op = "seek" /\ last.seekFail) => last.ret = Zero64

\* C5: when drwav_read_f32, asked for samplesToRead > 0 samples, returns
\* fewer, then no whole sample remains in the data chunk or the source
\* delivered a short read, whatever the format tag and bytesPerSample
\* (stated for bytesPerSample > 0; bytesPerSample = 0 is the subject of C9).
C5_ShortF32MeansEnd ==
    (/\ last.op = "read_f32"
     /\ status = "open"
     /\ pWav.bytesPerSample > 0
     /\ Lt64(Zero64, last.a)
     /\ Lt64(last.ret, last.a))
    => \/ Lt64(pWav.bytesRemaining, U64(pWav.bytesPerSample))
       \/ last.short

\* C6: while the decoder is open, bytesRemaining is at most the declared size
\* of the data chunk (and, being unsigned, at least 0: a decrement below 0
\* would wrap above the declared size); drwav_read_raw and drwav_read lower
\* it by exactly the bytes the source delivered; no operation but drwav_seek
\* raises it.
C6_BytesRemainingBounded ==
    /\ status = "open" => Le64(pWav.bytesRemaining, DataSize(w.chunks, 1))
    /\ last.op \in {"read_raw", "read"} =>
          /\ Le64(last.got, last.before)
          /\ pWav.bytesRemaining = Sub64(last.before, last.got)
    /\ last.op \in {"read_raw", "read", "read_f32"} =>
          Le64(pWav.bytesRemaining, last.before)

\* C6 happens: after a read that consumed bytes, a drwav_seek raised
\* bytesRemaining
C6_Witness ==
    /\ status = "open"
    /\ Len(hist) = 2
    /\ hist[1].op = "read"
    /\ hist[1].ret # Zero64
    /\ last.op = "seek"
    /\ Lt64(last.before, pWav.bytesRemaining)
    /\ Lt64(last.before, DataSize(w.chunks, 1))

\* the container or the source has one of the defects drwav_open rejects
Defective ==
    \/ w.riffId # "RIFF"
    \/ w.waveId # "WAVE"
    \/ Lt64(drwav__read_u32(w.riffSize), U64(36))
    \/ w.fmtId # "fmt "
    \/ FmtSize \notin {16, 18, 40}
    \/ (FmtSize = 40 /\ drwav__read_u16(w.cbSize) # 22)
    \/ last.short
    \/ last.seekFail
    \/ \A i \in 1..Len(w.chunks) : w.chunks[i].id # "data"

\* C7: drwav_open returns NULL when the first 4 bytes are not "RIFF", bytes
\* 8-11 are not "WAVE", the RIFF size is below 36, the format chunk id is not
\* "fmt ", its size is not 16, 18 or 40, its size is 40 and the extension
\* size is not 22, a read was short or failed or a seek failed, or no "data"
\* chunk comes before the end of the source.
C7_DefectiveOpenIsNull ==
    (last.op = "open" /\ Defective) => status = "null"

\* C7 happens: a whole file with a good header and MaxChunks chunks, none of
\* them "data", the first of size 0xFFFFFFFF, was rejected without I/O fault
C7_Witness ==
    /\ last.op = "open"
    /\ status = "null"
    /\ ~last.fault
    /\ src.kind = "stdio"
    /\ WholeSource
    /\ w.riffId = "RIFF" /\ w.waveId = "WAVE" /\ w.fmtId = "fmt "
    /\ FmtSize = 18
    /\ Len(w.chunks) = MaxChunks
    /\ \A i \in 1..Len(w.chunks) : w.chunks[i].id # "data"
    /\ w.chunks[1].size = <<255, 255, 255, 255>>

\* 8 + size + (size mod 2) summed over the chunks before the data chunk
RECURSIVE SkippedBytes(_, _)
SkippedBytes(chunks, i) ==
    IF i > Len(chunks) \/ chunks[i].id = "data" THEN Zero64
    ELSE Add64(Add64(U64(8 + (chunks[i].size[1] % 2)),
                     drwav__read_u32(chunks[i].size)),
               SkippedBytes(chunks, i + 1))

\* C8: when drwav_open succeeds the source has advanced by 12 + 8 + fmtSize +
\* (8 + size + size mod 2 for each skipped chunk) + 8 bytes, fmtSize being
\* 16, 18 or 40, and bytesRemaining is the declared size of the data chunk.
C8_OpenAtDataPayload ==
    status = "open" =>
        /\ FmtSize \in {16, 18, 40}
        /\ dataStart = Add64(U64(12 + 8 + FmtSize + 8), SkippedBytes(w.chunks, 1))
        /\ (last.op = "open" => srcPos = dataStart /\ pWav.bytesRemaining = DataSize(w.chunks, 1))

\* C8 happens: a format chunk of 18 bytes, then a skipped chunk of size
\* 0xFFFFFFFF and one of size 0, then the data chunk
C8_Witness ==
    /\ status = "open"
    /\ last.op = "open"
    /\ FmtSize = 18
    /\ Len(w.chunks) >= 3
    /\ w.chunks[1].size = <<255, 255, 255, 255>>
    /\ w.chunks[2].size = <<0, 0, 0, 0>>
    /\ w.chunks[3].id = "data"

\* C9: drwav_open evaluates no division whose divisor is 0: a container that
\* declares 0 channels is rejected, and no opened decoder has
\* bytesPerSample = 0.
C9_NoZeroDivisor ==
    /\ last.op = "open" => ~last.divZero
    /\ (last.op = "open" /\ drwav__read_u16(w.channels) = 0) => status = "null"
    /\ status = "open" => pWav.bytesPerSample # 0

\* C10: when the format chunk declares size 18, drwav__read_fmt consumes 2
\* further bytes and the descriptor's extension fields are zero.
C10_Fmt18ExtensionZero ==
    (status = "open" /\ last.op = "open" /\ FmtSize = 18) =>
        /\ dataStart = Add64(U64(12 + 8 + 16 + 2 + 8), SkippedBytes(w.chunks, 1))
        /\ pWav.fmt.extendedSize = 0
        /\ pWav.fmt.validBitsPerSample = 0
        /\ pWav.fmt.channelMask = Zero64
        /\ \A i \in 1..16 : pWav.fmt.subFormat[i] = 0

\* C11: whenever drwav_seek can be called on an opened decoder,
\* totalSampleCount * bytesPerSample >= bytesRemaining (the assert of
\* drwav_seek, which is reached when totalSampleCount # 0), also when the
\* data chunk size is not a multiple of bytesPerSample; so no drwav_seek
\* aborts.
C11_SeekAssertHolds ==
    /\ status # "abort"
    /\ (status = "open" /\ pWav.totalSampleCount # Zero64) =>
          Le64(pWav.bytesRemaining,
               Mul64(pWav.totalSampleCount, pWav.bytesPerSample))

\* the sample count drwav_read is to settle on: the request clamped to the
\* samples the buffer holds and to the whole samples remaining
ClampedSamples ==
    Min64(Min64(last.a, Div64(last.b, pWav.bytesPerSample)),
          Div64(last.before, pWav.bytesPerSample))

\* C12: drwav_read clamps the requested sample count to bufferOutSize /
\* bytesPerSample and to bytesRemaining / bytesPerSample and asks for exactly
\* that many samples' bytes; so when the source delivers every byte asked
\* for, a drwav_read consumes a multiple of bytesPerSample bytes of the data
\* chunk and returns the bytes consumed / bytesPerSample.
C12_ReadWholeSamples ==
    (/\ last.op = "read"
     /\ status = "open"
     /\ pWav.bytesPerSample > 0
     /\ ~last.short)
    => /\ last.got = Mul64(ClampedSamples, pWav.bytesPerSample)
       /\ Mod64(Sub64(last.before, pWav.bytesRemaining), pWav.bytesPerSample) = 0
       /\ last.ret = Div64(Sub64(last.before, pWav.bytesRemaining), pWav.bytesPerSample)

\* the sum of the offsets of a log, as a uint64_t (modulo 2^64)
RECURSIVE SumLog(_, _)
SumLog(log, j) ==
    IF j > Len(log) THEN Zero64 ELSE AddInt64(SumLog(log, j + 1), log[j])

\* the offsets log[j..] are those of the skips of chunks[i..] up to the data
\* chunk, rem bytes being left of the skip under way: each offset is in
\* 1..2^31-1 and the offsets of a skip add up to the chunk's size plus its
\* pad byte
RECURSIVE SkipsMatch(_, _, _, _, _)
SkipsMatch(log, j, chunks, i, rem) ==
    IF rem # Zero64
    THEN /\ j <= Len(log)
         /\ log[j] >= 1
         /\ log[j] <= 2147483647
         /\ Le64(U64(log[j]), rem)
         /\ SkipsMatch(log, j + 1, chunks, i, Sub64(rem, U64(log[j])))
    ELSE IF i > Len(chunks) \/ chunks[i].id = "data"
    THEN j = Len(log) + 1
    ELSE SkipsMatch(log, j, chunks, i + 1,
                    Add64(drwav__read_u32(chunks[i].size),
                          U64(chunks[i].size[1] % 2)))

\* the displacement a drwav_seek is to make: the target byte position minus
\* the current byte position, modulo 2^64
SeekDisplacement ==
    Sub64(Mul64(IF Le64(pWav.totalSampleCount, last.a)
                THEN Sub64(pWav.totalSampleCount, U64(1))
                ELSE last.a,
                pWav.bytesPerSample),
          Sub64(Mul64(pWav.totalSampleCount, pWav.bytesPerSample), last.before))

\* C13: every offset drwav_open passes to onSeek to skip a chunk and every
\* offset drwav_seek passes is non-zero and of magnitude <= 2^31 - 1; the
\* offsets of one skip or one seek have the same sign; they add up to the
\* padded chunk size for a skip and to target minus current byte position
\* for a seek, and drwav_seek changes bytesRemaining by minus that sum; also
\* for displacements above 2^31 - 1.
C13_BoundedSeeks ==
    /\ (last.op = "open" /\ status = "open") =>
          SkipsMatch(last.log, IF FmtSize = 18 THEN 2 ELSE 1, w.chunks, 1, Zero64)
    /\ (last.op = "seek" /\ status = "open") =>
          /\ \A j \in 1..Len(last.log) :
                /\ last.log[j] # 0
                /\ last.log[j] <= 2147483647
                /\ last.log[j] >= -2147483647
                /\ (last.log[j] > 0) = (last.log[1] > 0)
          /\ pWav.totalSampleCount = Zero64 => last.log = <<>>
          /\ pWav.totalSampleCount # Zero64 =>
                /\ SumLog(last.log, 1) = SeekDisplacement
                /\ pWav.bytesRemaining = Sub64(last.before, SeekDisplacement)

\* C13 happens: on a decoder opened past a skipped chunk of 0xFFFFFFFF bytes,
\* a backward drwav_seek over more than 2^31 - 1 bytes followed a forward one
C13_Witness ==
    /\ status = "open"
    /\ w = HugeContainer
    /\ Lt64(U64(INT_MAX), dataStart)
    /\ Len(hist) = 2
    /\ hist[1].op = "seek"
    /\ last.op = "seek"
    /\ Len(last.log) = 2
    /\ last.log[1] = -2147483647
    /\ Lt64(U64(INT_MAX), pWav.bytesRemaining)

\* the value the generic converter is to give for the sample s: the 4
\* leading bytes, the first most significant, as a signed 32-bit integer
\* over 2^31
LeadingFour(s) == FloatOf(Int32Of(<<s[4], s[3], s[2], s[1]>>), 0)

\* C14: for every bytesPerSample >= 5, drwav__pcm_to_f32 gives for each
\* sample the float of (int)(b0 << 24 | b1 << 16 | b2 << 8 | b3) / 2^31,
\* whatever the bytes beyond the fourth, and makes no shift by 32 bits or
\* more.
C14_GenericPcmLeadingFour ==
    (conv.fn = "drwav__pcm_to_f32" /\ conv.done /\ conv.bytesPerSample >= 5) =>
        /\ ~conv.over
        /\ \A i \in 1..conv.totalSampleCount :
              conv.out[i] =
                  LeadingFour(SampleAt(conv.pPCM, conv.bytesPerSample, i - 1))

\* C15: in drwav_read_f32, the converter applied to a staging chunk reads
\* only bytes the drwav_read before it placed in sampleData[4096]: at most
\* samplesRead * bytesPerSample bytes, and none past the end of the buffer,
\* for every format and every bytesPerSample.
C15_ConverterReadsWhatWasPlaced ==
    (last.op = "read_f32" /\ status \in {"open", "segv"}) =>
        \A i \in 1..Len(last.stages) :
            /\ Le64(last.stages[i].reads,
                    Mul64(last.stages[i].samplesRead, pWav.bytesPerSample))
            /\ Le64(last.stages[i].reads, last.stages[i].placed)
            /\ Le64(last.stages[i].reads, U64(4096))

\* C16: the FILE of drwav_open_file and the drwav_memory block of
\* drwav_open_memory are released exactly once: by drwav_close on the
\* decoder returned, or before the opener returns NULL; after a failed open
\* and after drwav_close nothing is held.
C16_NoLeak ==
    /\ status = "null" => res.held = {}
    /\ status = "done" =>
          /\ res.held = {}
          /\ \E i \in 1..Len(res.released) : res.released[i] = OpenerAcquires(src)
    /\ \A i, j \in 1..Len(res.released) :
          res.released[i] = res.released[j] => i = j

=============================================================================
